---- MODULE Spec2Model ----
(***************************************************************************)
(* Model of the BLUSE coordinator (meerkat_backend_interface/coordinator.py)*)
(* and of the Redis helpers it uses (src/redis_tools.py).                   *)
(*                                                                         *)
(* The Redis store is the state; every handler of Coordinator.start is one *)
(* action that runs the whole handler, including the exception that ends   *)
(* the process (start catches Exception and calls sys.exit(1)).            *)
(*                                                                         *)
(* Encodings.  A host is its index in hashpipe_instances.  A gateway       *)
(* message KEY=VALUE on bluse://<host>/set is [host, key, val, cnt]; cnt   *)
(* is NoCnt except for a DESTIP group "<prefix>.<val>+<cnt>".  Python's    *)
(* None is NoneVal.  A trigger mode is [kind, n] (n is k for nshot:k).     *)
(***************************************************************************)
EXTENDS Integers, Sequences, FiniteSets, TLC

\* ------------------------------------------------------------ bounds
NHosts == 3
MaxStreams == 7
MaxOffset == 1
MaxShots == 2
MaxEvents == 4
MaxLen == 3
MaxNameLen == 3
MaxRetries == 4
MaxWide == 12
MaxGroups == 3
MaxCap == 3
MaxPlanStreams == 8
MaxPlanOffset == 2

\* ------------------------------------------------- program constants
PKTIDX_MARGIN == 1024
TargetLen == 16
StreamsPerInstance == 2
Addr0 == 0
HnChan == 2
NoneVal == -1
NoCnt == -1

Products == {"array_1", "array_2"}
Hosts == 1..NHosts
hashpipe_instances == [i \in 1..NHosts |-> i]

\* ---------------------------------------------------------- helpers
Min(a, b) == IF a < b THEN a ELSE b

Abs(a) == IF a < 0 THEN 0 - a ELSE a

Range(s) == {s[i] : i \in 1..Len(s)}

RECURSIVE FlatSeq(_)
FlatSeq(ss) == IF ss = <<>> THEN <<>> ELSE Head(ss) \o FlatSeq(Tail(ss))

Msg(h, k, v, c) == [host |-> h, key |-> k, val |-> v, cnt |-> c]

\* ------------------------------------------------------------ state
VARIABLES
    cfg,          \* self.hashpipe_instances and self.streams_per_instance (the config file)
    mirror,       \* field PKTSTART of the hashes bluse://<host>/set, as a set of messages
    nevents,      \* history: the number of events handled since start()
    pc,           \* "init" before start(), "running" in the event loop, "exited" after sys.exit(1)
    triggermode,  \* self.triggermode
    storedMode,   \* key coordinator:trigger_mode
    free,         \* list coordinator:free_hosts
    alloc,        \* lists coordinator:allocated_hosts:<product_id> (<<>>: no key)
    tmode,        \* keys coordinator:trigger_mode:<product_id>
    tracking,     \* keys coordinator:tracking:<product_id> ("none": no key)
    sent,         \* gateway messages published by the last handler, in order
    last,         \* the last event handled, and what its handler read on entry
    lastDestip,   \* history: the last DESTIP published to each host
    released,     \* history: hosts released by a deconfigure and not allocated since
    episode,      \* history: the start index issued since the last not-tracking event
    live,         \* history: per product, the plan and pool of its conf_complete
    fin,          \* input of the pure function under check
    fout,         \* its result
    fpc,          \* "in" before the function is applied, "done" after
    kat           \* the sensor fetcher: its dictionaries, its pending alerts, its writes

coordVars == <<cfg, mirror, nevents, pc, triggermode, storedMode, free, alloc, tmode, tracking,
               sent, last, lastDestip, released, episode, live>>

funVars == <<fin, fout, fpc, kat>>

vars == <<cfg, mirror, nevents, pc, triggermode, storedMode, free, alloc, tmode, tracking,
          sent, last, lastDestip, released, episode, live, fin, fout, fpc, kat>>

\* The fetcher before start(): empty dictionaries (__init__, l.58-64), nothing pending.
KatOff ==
    [pos |-> "off", alerts |-> <<>>, subarray_katportals |-> {}, namespaces |-> {},
     subscribed |-> {}, store |-> {}, trace |-> <<>>, n |-> 0, updates |-> 0]

\* ---------------------------------------------------- trigger modes
Mode(k, n) == [kind |-> k, n |-> n]

NoMode == Mode("none", 0)

Idle == Mode("idle", 0)

Modes == {Idle, Mode("auto", 0), Mode("armed", 0)} \cup {Mode("nshot", k) : k \in 1..MaxShots}

\* --------------------------------------------------- redis_tools.py
\* write_list_redis: delete the key, then rpush the values.  RPUSH with no
\* value is an error reply; the handler of that error formats the undefined
\* name `channel`, so the call raises and leaves the key deleted.
write_list_redis(values) == [list |-> values, raised |-> values = <<>>]

\* ------------------------------------------------------ stream plan
CeilDiv(a, b) == (a + b - 1) \div b

Group(suffix, cnt) == [suffix |-> suffix, cnt |-> cnt]

FullGroups(suffix0, streams_per_instance, n) ==
    [i \in 1..n |-> Group(suffix0 + (i - 1) * streams_per_instance, streams_per_instance - 1)]

\* The loop variable i of the second branch is bound only if the loop body
\* runs, i.e. if n_instances_req >= 2; otherwise the last append raises
\* UnboundLocalError.
create_addr_list_filled(addr0, n_groups, n_addrs_in, streams_per_instance, offset) ==
    LET suffix0 == addr0 + offset
        n_addrs == n_addrs_in - offset
        n_instances_req == CeilDiv(n_addrs, streams_per_instance)
        i == n_instances_req - 1
    IN  IF n_addrs > streams_per_instance * n_groups
        THEN [raised |-> FALSE,
              list |-> FullGroups(suffix0, streams_per_instance, n_groups)]
        ELSE IF n_instances_req < 2
        THEN [raised |-> TRUE, list |-> <<>>]
        ELSE [raised |-> FALSE,
              list |-> Append(FullGroups(suffix0, streams_per_instance, i),
                              Group(suffix0 + i * streams_per_instance,
                                    n_addrs - 1 - i * streams_per_instance))]

\* A stream URL spead://<prefix>.<addr0>+<n>:<port>; plus = FALSE is the URL
\* without "+<n>", for which addrs.split('+') raises the ValueError caught here.
Url(addr0, plus, n) == [addr0 |-> addr0, plus |-> plus, n |-> n]

read_spead_addresses(url, n_groups, streams_per_instance, offset) ==
    IF url.plus
    THEN LET r == create_addr_list_filled(url.addr0, n_groups, url.n + 1,
                                          streams_per_instance, offset)
         IN  [raised |-> r.raised, list |-> r.list, n_addrs |-> url.n + 1]
    ELSE [raised |-> FALSE, list |-> <<Group(url.addr0, 0)>>, n_addrs |-> 1]

ip_addresses(url, offset) ==
    read_spead_addresses(url, Len(cfg.hashpipe_instances), cfg.streams_per_instance, offset)

\* ------------------------------------------------------ start index
RECURSIVE Insert(_, _)
Insert(x, s) ==
    IF s = <<>> THEN <<x>>
    ELSE IF x <= Head(s) THEN <<x>> \o s
    ELSE <<Head(s)>> \o Insert(x, Tail(s))

RECURSIVE SortAsc(_)
SortAsc(s) == IF s = <<>> THEN <<>> ELSE Insert(Head(s), SortAsc(Tail(s)))

\* np.median, doubled so that the mean of the two middle values stays an integer.
Median2(s) ==
    LET t == SortAsc(s)
        n == Len(s)
    IN  IF n % 2 = 1 THEN 2 * t[(n + 1) \div 2] ELSE t[n \div 2] + t[n \div 2 + 1]

\* margin_diff (doubled) after margin_diff[outliers] = 0
MarginDiff2(s, margin) ==
    [i \in 1..Len(s) |->
        LET d == Abs(2 * s[i] - Median2(s))
        IN  IF d > 2 * margin THEN 0 ELSE d]

\* np.argmax: the first index of the largest entry
ArgMax(d) ==
    CHOOSE i \in 1..Len(d) :
        /\ \A j \in 1..Len(d) : d[j] <= d[i]
        /\ \A j \in 1..(i - 1) : d[j] < d[i]

select_pkt_start(pkt_idxs, idx_margin) ==
    pkt_idxs[ArgMax(MarginDiff2(pkt_idxs, idx_margin))] + idx_margin

\* A status hash bluse://<host>/status: netstat "none" and pktidx/dwell NoneVal
\* are missing fields; exists = FALSE is a missing (empty) hash.
Status(e, ns, pk, dw) == [exists |-> e, netstat |-> ns, pktidx |-> pk, dwell |-> dw]

get_pkt_idx(st) ==
    IF st.exists /\ st.netstat # "none" /\ st.netstat # "idle" THEN st.pktidx ELSE NoneVal

get_dwell_time(st) ==
    IF st.exists /\ st.dwell # NoneVal THEN st.dwell ELSE 0

RECURSIVE ActiveIdxs(_, _)
ActiveIdxs(host_list, status) ==
    IF host_list = <<>> THEN <<>>
    ELSE LET pkt_idx == get_pkt_idx(status[Head(host_list)])
         IN  (IF pkt_idx # NoneVal THEN <<pkt_idx>> ELSE <<>>)
                \o ActiveIdxs(Tail(host_list), status)

get_start_idx(host_list, status, idx_margin) ==
    LET pkt_idxs == ActiveIdxs(host_list, status)
    IN  IF Len(pkt_idxs) > 0 THEN select_pkt_start(pkt_idxs, idx_margin) ELSE NoneVal

\* ------------------------------------------------- handler inputs
Urls == {Url(Addr0, FALSE, 0)} \cup {Url(Addr0, TRUE, n) : n \in 0..(MaxStreams - 1)}

HostStatuses ==
    { Status(FALSE, "none", NoneVal, NoneVal),
      Status(TRUE, "idle", 100, NoneVal),
      Status(TRUE, "LISTEN", 100, 30),
      Status(TRUE, "LISTEN", 105, 30),
      Status(TRUE, "LISTEN", 3000, 60) }

\* The status hashes as tracking_stop sees them: it reads DWELL only.
DwellStatuses ==
    { Status(FALSE, "none", NoneVal, NoneVal),
      Status(TRUE, "LISTEN", 100, 30),
      Status(TRUE, "LISTEN", 3000, 60) }

\* --------------------------------------------------- pub_gateway_msg
\* The Redis commands of one call, in the order the function issues them:
\* publish KEY=VALUE on the channel, then, if write, hset the channel's hash.
pub_gateway_msg(m, write) ==
    IF write
    THEN << [cmd |-> "publish", msg |-> m], [cmd |-> "hset", msg |-> m] >>
    ELSE << [cmd |-> "publish", msg |-> m] >>

\* The commands of the calls that publish msgs, one call per message.
Cmds(msgs, write) ==
    LET k == IF write THEN 2 ELSE 1
    IN  [i \in 1..(k * Len(msgs)) |->
            pub_gateway_msg(msgs[((i - 1) \div k) + 1], write)[((i - 1) % k) + 1]]

\* The hash field the model keeps: PKTSTART, which conf_complete, tracking_start
\* and tracking_stop all publish.
MirrorKeys == {"PKTSTART"}

\* The hashes after the commands cmds: each hset makes the field msg_name of
\* the hash of its channel msg_val, so a field holds the value of the last
\* hset for it.
Exec(hash, cmds) ==
    LET hsets == {i \in 1..Len(cmds) :
                    cmds[i].cmd = "hset" /\ cmds[i].msg.key \in MirrorKeys}
        Same(m, x) == m.host = x.host /\ m.key = x.key
    IN  {x \in hash : \A i \in hsets : ~Same(cmds[i].msg, x)}
            \cup {cmds[i].msg : i \in {j \in hsets :
                        \A l \in hsets : l > j => ~Same(cmds[l].msg, cmds[j].msg)}}

\* ------------------------------------------------- history records
\* missing: conf_complete reached its loop over chan_list and found the
\* sensor snapshots missing.
Last(op, p, hosts, status, ran) ==
    [op |-> op, p |-> p, hosts |-> hosts, trk |-> tracking[p], mode |-> tmode[p],
     status |-> status, ran |-> ran, missing |-> FALSE]

NotLive == [on |-> FALSE, n_red_chans |-> 0, n_free |-> 0]

\* The state of lastDestip after `msgs` have been published.
DestipAfter(msgs) ==
    [h \in DOMAIN lastDestip |->
        LET idx == {i \in 1..Len(msgs) : msgs[i].host = h /\ msgs[i].key = "DESTIP"}
        IN  IF idx = {} THEN lastDestip[h]
            ELSE LET m == msgs[CHOOSE i \in idx : \A j \in idx : j <= i]
                 IN  IF m.cnt = NoCnt THEN "0.0.0.0" ELSE "group"]

\* ------------------------------------------------------------ start
Init ==
    /\ pc = "init"
    /\ cfg = [hashpipe_instances |-> hashpipe_instances,
              streams_per_instance |-> StreamsPerInstance]
    /\ mirror = {}
    /\ nevents = 0
    /\ triggermode \in Modes
    /\ storedMode = NoMode
    /\ free = <<>>
    /\ alloc = [p \in Products |-> <<>>]
    /\ tmode = [p \in Products |-> NoMode]
    /\ tracking = [p \in Products |-> "none"]
    /\ sent = <<>>
    /\ last = [op |-> "none", p |-> "none", hosts |-> <<>>, trk |-> "none",
               mode |-> NoMode, status |-> <<>>, ran |-> FALSE, missing |-> FALSE]
    /\ lastDestip = [h \in Hosts |-> "none"]
    /\ released = {}
    /\ episode = [p \in Products |-> {}]
    /\ live = [p \in Products |-> NotLive]
    /\ fin = <<>>
    /\ fout = <<>>
    /\ fpc = "off"
    /\ kat = KatOff

\* Coordinator.start up to the event loop: the free pool is written from the
\* configuration if the list coordinator:free_hosts is empty or missing.
Start ==
    /\ pc = "init"
    /\ LET w == write_list_redis(cfg.hashpipe_instances)
       IN  /\ free' = IF Len(free) = 0 THEN w.list ELSE free
           /\ pc' = IF Len(free) = 0 /\ w.raised THEN "exited" ELSE "running"
    /\ UNCHANGED <<cfg, mirror, nevents, triggermode, storedMode, alloc, tmode, tracking,
                   sent, last, lastDestip, released, episode, live>>
    /\ UNCHANGED funVars

\* One event taken from ps.listen() by the loop of Coordinator.start.
Event ==
    /\ pc = "running"
    /\ nevents < MaxEvents
    /\ nevents' = nevents + 1

\* ---------------------------------------------------- conf_complete
AllocSliceShort(free_hosts, n_red_chans) ==
    SubSeq(free_hosts, 1, Min(n_red_chans, Len(free_hosts)) - 1)

AllocSlice(free_hosts, n_red_chans) ==
    SubSeq(free_hosts, 1, Min(n_red_chans, Len(free_hosts)))

\* The pool written back without removing the allocated hosts.
RestSliceAll(free_hosts, n_red_chans) == free_hosts

RestSlice(free_hosts, n_red_chans) ==
    IF Len(free_hosts) < n_red_chans THEN <<>>
    ELSE SubSeq(free_hosts, n_red_chans + 1, Len(free_hosts))

\* int(addr_list[i][-1]) + 1: the last character of "<prefix>.<suffix>+<cnt>"
NstrmRaw(group) == group.cnt % 10

Nstrm(group) == (group.cnt % 10) + 1

\* The messages of one pass of the loop over chan_list (i counts from 0); the
\* sensor-derived values other than HNCHAN are not modelled (0).
ConfHostMsgs(h, i, plan, offset) ==
    << Msg(h, "BINDPORT", 0, NoCnt), Msg(h, "FENSTRM", plan.n_addrs, NoCnt),
       Msg(h, "SYNCTIME", 0, NoCnt), Msg(h, "FECENTER", 0, NoCnt),
       Msg(h, "FENCHAN", 0, NoCnt), Msg(h, "CHAN_BW", 0, NoCnt),
       Msg(h, "HNCHAN", HnChan, NoCnt), Msg(h, "HNTIME", 0, NoCnt),
       Msg(h, "HCLOCKS", 0, NoCnt), Msg(h, "NANTS", 0, NoCnt),
       Msg(h, "PKTSTART", 0, NoCnt),
       Msg(h, "NSTRM", Nstrm(plan.list[i + 1]), NoCnt),
       Msg(h, "SCHAN", offset * HnChan + i * Nstrm(plan.list[i + 1]) * HnChan, NoCnt),
       Msg(h, "DESTIP", plan.list[i + 1].suffix, plan.list[i + 1].cnt) >>

\* sensors = FALSE: the sensor snapshots are missing from the store, and
\* sync_time raises (float(None)) in the first pass, after BINDPORT and FENSTRM.
ConfMsgs(hosts, plan, offset, sensors) ==
    IF sensors \/ hosts = <<>>
    THEN FlatSeq([i \in 1..Len(hosts) |-> ConfHostMsgs(hosts[i], i - 1, plan, offset)])
    ELSE SubSeq(ConfHostMsgs(hosts[1], 0, plan, offset), 1, 2)

conf_complete(product_id, url, offset, sensors) ==
    LET plan == ip_addresses(url, offset)
        n_red_chans == Len(plan.list)
        allocated_hosts == AllocSlice(free, n_red_chans)
        w == write_list_redis(RestSlice(free, n_red_chans))
        msgs == IF plan.raised \/ Len(free) = 0 \/ w.raised THEN <<>>
                ELSE ConfMsgs(allocated_hosts, plan, offset, sensors)
    IN  /\ Event
        /\ last' = [Last("conf_complete", product_id, <<>>, <<>>, TRUE)
                        EXCEPT !.missing = msgs # <<>> /\ ~sensors]
        /\ tmode' = [tmode EXCEPT ![product_id] = triggermode]
        /\ pc' = IF plan.raised
                    \/ (Len(free) > 0 /\ (w.raised \/ (~sensors /\ allocated_hosts # <<>>)))
                 THEN "exited" ELSE "running"
        /\ alloc' = IF plan.raised \/ Len(free) = 0 THEN alloc
                    ELSE [alloc EXCEPT ![product_id] = allocated_hosts]
        /\ free' = IF plan.raised \/ Len(free) = 0 THEN free ELSE w.list
        /\ sent' = msgs
        /\ mirror' = Exec(mirror, Cmds(msgs, TRUE))
        /\ lastDestip' = DestipAfter(msgs)
        /\ released' = IF plan.raised \/ Len(free) = 0 THEN released
                       ELSE released \ Range(allocated_hosts)
        /\ live' = [live EXCEPT ![product_id] =
                      IF plan.raised THEN @
                      ELSE [on |-> TRUE, n_red_chans |-> n_red_chans, n_free |-> Len(free)]]
        /\ UNCHANGED <<cfg, triggermode, storedMode, tracking, episode>>
        /\ UNCHANGED funVars

\* ------------------------------------------------------ deconfigure
DeconfMsgsButLast(hosts) ==
    [i \in 1..(Len(hosts) - 1) |-> Msg(hosts[i], "DESTIP", 0, NoCnt)]

ReleaseFront(free_hosts, allocated_hosts) == allocated_hosts \o free_hosts

\* free_hosts = free_hosts + allocated_hosts
Release(free_hosts, allocated_hosts) == free_hosts \o allocated_hosts

DeconfMsgs(hosts) == [i \in 1..Len(hosts) |-> Msg(hosts[i], "DESTIP", 0, NoCnt)]

deconfigure(description) ==
    LET allocated_hosts == alloc[description]
        msgs == DeconfMsgs(allocated_hosts)
        w == write_list_redis(Release(free, allocated_hosts))
    IN  /\ Event
        /\ last' = Last("deconfigure", description, allocated_hosts, <<>>, TRUE)
        /\ sent' = msgs
        /\ mirror' = Exec(mirror, Cmds(msgs, FALSE))
        /\ free' = w.list
        /\ pc' = IF w.raised THEN "exited" ELSE "running"
        /\ alloc' = IF w.raised THEN alloc ELSE [alloc EXCEPT ![description] = <<>>]
        /\ lastDestip' = DestipAfter(msgs)
        /\ released' = released \cup Range(allocated_hosts)
        /\ live' = [live EXCEPT ![description] = NotLive]
        /\ UNCHANGED <<cfg, triggermode, storedMode, tmode, tracking, episode>>
        /\ UNCHANGED funVars

\* --------------------------------------------------- tracking_start
\* The first loop: DATADIR, SRC_NAME, RA_STR and DEC_STR for each host in turn.
\* The values (datadir, target name, coordinates) are not modelled (0).
MetaMsgs(hosts) ==
    FlatSeq([i \in 1..Len(hosts) |->
        << Msg(hosts[i], "DATADIR", 0, NoCnt), Msg(hosts[i], "SRC_NAME", 0, NoCnt),
           Msg(hosts[i], "RA_STR", 0, NoCnt), Msg(hosts[i], "DEC_STR", 0, NoCnt) >>])

\* The second loop: PKTSTART for each host.
StartMsgs(hosts, pkt_idx_start) ==
    [i \in 1..Len(hosts) |-> Msg(hosts[i], "PKTSTART", pkt_idx_start, NoCnt)]

TrackingMsgsInterleaved(hosts, pkt_idx_start) ==
    FlatSeq([i \in 1..Len(hosts) |->
        << Msg(hosts[i], "DATADIR", 0, NoCnt), Msg(hosts[i], "SRC_NAME", 0, NoCnt),
           Msg(hosts[i], "RA_STR", 0, NoCnt), Msg(hosts[i], "DEC_STR", 0, NoCnt),
           Msg(hosts[i], "PKTSTART", pkt_idx_start, NoCnt) >>])

TrackingMsgs(hosts, pkt_idx_start) == MetaMsgs(hosts) \o StartMsgs(hosts, pkt_idx_start)

\* The decrement of lines 289-293 without the reset of lines 295-298.
NextTriggerModeDecrementOnly(m) ==
    IF m.kind = "armed" THEN Idle
    ELSE IF m.kind = "nshot" THEN Mode("nshot", m.n - 1) ELSE m

\* Lines 284-299: armed -> idle; nshot:k -> nshot:k-1, and idle once k-1 <= 0.
NextTriggerMode(m) ==
    IF m.kind = "armed" THEN Idle
    ELSE IF m.kind = "nshot"
         THEN (IF m.n - 1 <= 0 THEN Idle ELSE Mode("nshot", m.n - 1))
         ELSE m

\* target = FALSE: self.target raises in the first pass of the first loop (no
\* antenna list, no last-target timestamp, or a target string that target_name
\* cannot split), after DATADIR has been published to the first host.
\* An empty allocation raises before that (host_list[0] in get_datadir_root),
\* a missing trigger mode key after the PKTSTART loop ('nshot' in None).
tracking_start(product_id, status, target) ==
    LET allocated_hosts == alloc[product_id]
        pkt_idx_start == get_start_idx(allocated_hosts, status, PKTIDX_MARGIN)
        msgs == IF allocated_hosts = <<>> THEN <<>>
                ELSE IF ~target THEN <<Msg(allocated_hosts[1], "DATADIR", 0, NoCnt)>>
                ELSE TrackingMsgs(allocated_hosts, pkt_idx_start)
        raised == allocated_hosts = <<>> \/ ~target \/ tmode[product_id] = NoMode
    IN  /\ Event
        /\ last' = Last("tracking", product_id, allocated_hosts, status, TRUE)
        /\ sent' = msgs
        /\ mirror' = Exec(mirror, Cmds(msgs, FALSE))
        /\ pc' = IF raised THEN "exited" ELSE "running"
        /\ tmode' = IF raised THEN tmode
                    ELSE [tmode EXCEPT ![product_id] = NextTriggerMode(tmode[product_id])]
        /\ tracking' = IF raised THEN tracking ELSE [tracking EXCEPT ![product_id] = "1"]
        /\ episode' = [episode EXCEPT ![product_id] =
                         @ \cup {msgs[i].val : i \in {j \in 1..Len(msgs) :
                                    msgs[j].key = "PKTSTART" /\ msgs[j].val # NoneVal}}]
        /\ UNCHANGED <<cfg, triggermode, storedMode, free, alloc, lastDestip, released, live>>
        /\ UNCHANGED funVars

\* ---------------------------------------------------- tracking_stop
StopMsgsDwellFirst(hosts, status) ==
    FlatSeq([i \in 1..Len(hosts) |->
        << Msg(hosts[i], "DWELL", 0, NoCnt),
           Msg(hosts[i], "DWELL", get_dwell_time(status[hosts[i]]), NoCnt),
           Msg(hosts[i], "PKTSTART", 0, NoCnt) >>])

StopMsgs(hosts, status) ==
    FlatSeq([i \in 1..Len(hosts) |->
        << Msg(hosts[i], "DWELL", 0, NoCnt), Msg(hosts[i], "PKTSTART", 0, NoCnt),
           Msg(hosts[i], "DWELL", get_dwell_time(status[hosts[i]]), NoCnt) >>])

tracking_stop(product_id, status) ==
    LET allocated_hosts == alloc[product_id]
        ran == tracking[product_id] = "1"
    IN  /\ Event
        /\ last' = Last("not-tracking", product_id, allocated_hosts,
                         IF ran THEN status ELSE <<>>, ran)
        /\ sent' = IF ran THEN StopMsgs(allocated_hosts, status) ELSE <<>>
        /\ mirror' = Exec(mirror, Cmds(sent', FALSE))
        /\ tracking' = IF ran THEN [tracking EXCEPT ![product_id] = "0"] ELSE tracking
        /\ episode' = [episode EXCEPT ![product_id] = {}]
        /\ UNCHANGED <<cfg, pc, triggermode, storedMode, free, alloc, tmode, lastDestip,
                       released, live>>
        /\ UNCHANGED funVars

\* ------------------------------------------- coordinator:trigger_mode
trigger_mode(value) ==
    /\ Event
    /\ triggermode' = value
    /\ storedMode' = value
    /\ last' = [op |-> "trigger_mode", p |-> "none", hosts |-> <<>>, trk |-> "none",
                mode |-> NoMode, status |-> <<>>, ran |-> TRUE, missing |-> FALSE]
    /\ sent' = <<>>
    /\ UNCHANGED <<cfg, mirror, pc, free, alloc, tmode, tracking, lastDestip, released,
                   episode, live>>
    /\ UNCHANGED funVars

Next ==
    \/ Start
    \/ \E p \in Products, url \in Urls, offset \in 0..MaxOffset, sensors \in BOOLEAN :
          conf_complete(p, url, offset, sensors)
    \/ \E p \in Products : deconfigure(p)
    \/ \E p \in Products, target \in BOOLEAN :
          \E status \in [Range(alloc[p]) -> HostStatuses] : tracking_start(p, status, target)
    \/ \E p \in Products :
          \E status \in [Range(alloc[p]) -> DwellStatuses] : tracking_stop(p, status)
    \/ \E value \in Modes : trigger_mode(value)

Spec == Init /\ [][Next]_vars

\* ------------------------------------ the event loop on raw messages
\* A message is the sequence of the fields that its text has between colons.
\* Python's `sub in s` for the strings of the model: the pairs for which it
\* is true.
Substrings ==
    { <<"pos_request_base", "m000_pos_request_base_dec">>, <<"dec", "m000_pos_request_base_dec">>,
      <<"pos_request_base", "m000_pos_request_base_ra">>, <<"ra", "m000_pos_request_base_ra">>,
      <<"elev", "m000_pos_actual_scan_elev">>, <<"ra", "array_1">>, <<"ra", "array_2">> }

In(sub, s) == <<sub, s>> \in Substrings

\* int(s) and int(s, 2) for the one-field values of the model.
Digits == ("0" :> 0 @@ "1" :> 1 @@ "2" :> 2 @@ "3" :> 3)

Binary == ("0" :> 0 @@ "1" :> 1 @@ "10" :> 2 @@ "11" :> 3)

\* message['data'].split(':') without a limit: the third field alone.
parse_split_all(data) ==
    IF Len(data) < 2 THEN [msg_type |-> "", description |-> "", value |-> <<>>]
    ELSE [msg_type |-> data[1], description |-> data[2],
          value |-> IF Len(data) > 2 THEN <<data[3]>> ELSE <<>>]

\* message['data'].split(':', 2): the value is everything after the second
\* colon, kept here as the fields it holds.
parse_redis_msg(data) ==
    IF Len(data) < 2 THEN [msg_type |-> "", description |-> "", value |-> <<>>]
    ELSE [msg_type |-> data[1], description |-> data[2], value |-> SubSeq(data, 3, Len(data))]

\* The trigger mode a value stands for: 'nshot:<n>' is read by tracking_start
\* as nshot[0], int(nshot[1]).
ModeOf(value) ==
    IF Len(value) = 0 THEN Mode("", 0)
    ELSE IF value[1] = "nshot"
         THEN Mode("nshot", IF Len(value) > 1 /\ value[2] \in DOMAIN Digits
                            THEN Digits[value[2]] ELSE 0)
         ELSE Mode(value[1], 0)

\* int(value, 2) raises for a value that is not a binary numeral, after
\* nothing has been published.
data_suspect(description, value) ==
    LET allocated_hosts == alloc[description]
        raised == ~(Len(value) = 1 /\ value[1] \in DOMAIN Binary)
        msgs == IF raised THEN <<>>
                ELSE [i \in 1..Len(allocated_hosts) |->
                        Msg(allocated_hosts[i], "FESTATUS", Binary[value[1]], NoCnt)]
    IN  /\ Event
        /\ last' = Last("data-suspect", description, allocated_hosts, <<>>, TRUE)
        /\ sent' = msgs
        /\ mirror' = Exec(mirror, Cmds(msgs, FALSE))
        /\ pc' = IF raised THEN "exited" ELSE "running"
        /\ UNCHANGED <<cfg, triggermode, storedMode, free, alloc, tmode, tracking, lastDestip,
                       released, episode, live>>
        /\ UNCHANGED funVars

\* msg_type is the product id; a product id without an allocation list has
\* no hosts.  float(value) raises in the first pass of the RA loop.
pointing_update(msg_type, description, value) ==
    LET allocated_hosts == IF msg_type \in Products THEN alloc[msg_type] ELSE <<>>
        number == IF Len(value) = 1 /\ value[1] \in DOMAIN Digits
                  THEN Digits[value[1]] ELSE NoneVal
        key == IF In("dec", description) THEN "DEC"
               ELSE IF In("ra", description) THEN "RA"
               ELSE IF In("azim", description) THEN "AZ"
               ELSE IF In("elev", description) THEN "EL" ELSE "none"
        raised == key = "RA" /\ number = NoneVal /\ allocated_hosts # <<>>
        msgs == IF raised \/ key = "none" THEN <<>>
                ELSE [i \in 1..Len(allocated_hosts) |->
                        Msg(allocated_hosts[i], key,
                            IF key = "RA" THEN number * 15 ELSE number, NoCnt)]
    IN  /\ Event
        /\ last' = [op |-> "pointing", p |-> IF msg_type \in Products THEN msg_type ELSE "none",
                    hosts |-> allocated_hosts, trk |-> "none", mode |-> NoMode,
                    status |-> <<>>, ran |-> TRUE, missing |-> FALSE]
        /\ sent' = msgs
        /\ mirror' = Exec(mirror, Cmds(msgs, FALSE))
        /\ pc' = IF raised THEN "exited" ELSE "running"
        /\ UNCHANGED <<cfg, triggermode, storedMode, free, alloc, tmode, tracking, lastDestip,
                       released, episode, live>>
        /\ UNCHANGED funVars

\* No branch of the loop matches: the next message is taken.
skip ==
    /\ Event
    /\ last' = [op |-> "skipped", p |-> "none", hosts |-> <<>>, trk |-> "none",
                mode |-> NoMode, status |-> <<>>, ran |-> FALSE, missing |-> FALSE]
    /\ sent' = <<>>
    /\ UNCHANGED <<cfg, mirror, pc, triggermode, storedMode, free, alloc, tmode, tracking,
                   lastDestip, released, episode, live>>
    /\ UNCHANGED funVars

IsAnyDescription(description) == TRUE

IsPointing(description) == In("pos_request_base", description)

\* What the handlers read from the store and from the nodes while the raw
\* messages are explored: stream URLs for 1, 2 and 3 stream groups, no
\* ip_offset, sensor snapshots present, every node listening.
EventUrls == {Url(Addr0, TRUE, 1), Url(Addr0, TRUE, 3), Url(Addr0, TRUE, 5)}

Listening == Status(TRUE, "LISTEN", 100, 30)

\* The branches of the loop in Coordinator.start, in the order of the code.
Dispatch(data) ==
    LET m == parse_redis_msg(data)
    IN  IF m.msg_type = "coordinator" /\ m.description = "trigger_mode"
        THEN trigger_mode(ModeOf(m.value))
        ELSE IF m.msg_type = "conf_complete"
        THEN \E url \in EventUrls : conf_complete(m.description, url, 0, TRUE)
        ELSE IF m.msg_type = "deconfigure" THEN deconfigure(m.description)
        ELSE IF m.msg_type = "data-suspect" THEN data_suspect(m.description, m.value)
        ELSE IF m.msg_type = "tracking"
        THEN tracking_start(m.description,
                            [h \in Range(alloc[m.description]) |-> Listening], TRUE)
        ELSE IF m.msg_type = "not-tracking"
        THEN tracking_stop(m.description, [h \in Range(alloc[m.description]) |-> Listening])
        ELSE IF IsPointing(m.description)
        THEN pointing_update(m.msg_type, m.description, m.value)
        ELSE skip

TriggerData ==
    { <<"coordinator", "trigger_mode", "auto">>, <<"coordinator", "trigger_mode", "armed">>,
      <<"coordinator", "trigger_mode", "nshot", "2">> }

HandlerData ==
    {<<t, p>> : t \in {"conf_complete", "deconfigure", "tracking", "not-tracking"},
                p \in Products}
        \cup {<<"data-suspect", p, "10">> : p \in Products}
        \cup {<<p, "m000_pos_request_base_dec", "1">> : p \in Products}
        \cup {<<p, "m000_pos_request_base_ra", "1">> : p \in Products}

\* Messages with fewer than two fields, of the types the coordinator does not
\* handle, and sensor messages other than pointing requests.
OtherData ==
    { <<"">>, <<"deconfigure">>, <<"configure", "array_1">>, <<"capture-init", "array_1">>,
      <<"capture-start", "array_1">>, <<"capture-stop", "array_1">>,
      <<"capture-done", "array_1">>, <<"array_1", "m000_target", "J0918-1205">>,
      <<"array_1", "m000_pos_actual_scan_elev", "1">> }

EventData == TriggerData \cup HandlerData \cup OtherData

\* The supervisor starts a new coordinator after sys.exit(1): the store is
\* as the old process left it, self.triggermode comes from the command line.
\* Restarts are counted with the events to keep the exploration bounded.
Restart ==
    /\ pc = "exited"
    /\ nevents < MaxEvents
    /\ nevents' = nevents + 1
    /\ pc' = "init"
    /\ triggermode' \in Modes
    /\ last' = [op |-> "restart", p |-> "none", hosts |-> <<>>, trk |-> "none",
                mode |-> NoMode, status |-> <<>>, ran |-> TRUE, missing |-> FALSE]
    /\ sent' = <<>>
    /\ UNCHANGED <<cfg, mirror, storedMode, free, alloc, tmode, tracking, lastDestip,
                   released, episode, live>>
    /\ UNCHANGED funVars

NextEvents ==
    \/ Start
    \/ Restart
    \/ \E data \in EventData : Dispatch(data)

SpecEvents == Init /\ [][NextEvents]_vars

\* ---------------------------------- the pure functions on their own
PktVals == {1000, 1005, 2000, 999999}

PktLists == UNION {[1..n -> PktVals] : n \in 1..MaxLen}

PlanInputs ==
    {x \in [n_addrs : 1..MaxPlanStreams, n_groups : 1..MaxGroups,
            streams_per_instance : 1..MaxCap, offset : 0..MaxPlanOffset] :
        x.offset < x.n_addrs}

\* The coordinator before start(), with nothing in the store.
CoordOff ==
    /\ pc = "init"
    /\ cfg = [hashpipe_instances |-> hashpipe_instances,
              streams_per_instance |-> StreamsPerInstance]
    /\ mirror = {}
    /\ nevents = 0
    /\ triggermode = Idle
    /\ storedMode = NoMode
    /\ free = <<>>
    /\ alloc = [p \in Products |-> <<>>]
    /\ tmode = [p \in Products |-> NoMode]
    /\ tracking = [p \in Products |-> "none"]
    /\ sent = <<>>
    /\ last = [op |-> "none", p |-> "none", hosts |-> <<>>, trk |-> "none",
               mode |-> NoMode, status |-> <<>>, ran |-> FALSE, missing |-> FALSE]
    /\ lastDestip = [h \in Hosts |-> "none"]
    /\ released = {}
    /\ episode = [p \in Products |-> {}]
    /\ live = [p \in Products |-> NotLive]
    /\ kat = KatOff

InitPlan == CoordOff /\ fpc = "plan" /\ fin \in PlanInputs /\ fout = <<>>

ApplyPlan ==
    /\ fpc = "plan"
    /\ fout' = create_addr_list_filled(Addr0, fin.n_groups, fin.n_addrs,
                                       fin.streams_per_instance, fin.offset)
    /\ fpc' = "plan_done"
    /\ UNCHANGED <<fin, kat>>
    /\ UNCHANGED coordVars

SpecPlan == InitPlan /\ [][ApplyPlan]_vars

InitPkt == CoordOff /\ fpc = "pkt" /\ fin \in PktLists /\ fout = <<>>

ApplySelect ==
    /\ fpc = "pkt"
    /\ fout' = select_pkt_start(fin, PKTIDX_MARGIN)
    /\ fpc' = "pkt_done"
    /\ UNCHANGED <<fin, kat>>
    /\ UNCHANGED coordVars

SpecPkt == InitPkt /\ [][ApplySelect]_vars

PubKeys == {"PKTSTART", "DWELL", "NSTRM"}

PubInputs ==
    [msg : {Msg(h, k, v, NoCnt) : h \in Hosts, k \in PubKeys, v \in 0..MaxLen},
     write : BOOLEAN]

InitPub == CoordOff /\ fpc = "pub" /\ fin \in PubInputs /\ fout = <<>>

ApplyPub ==
    /\ fpc = "pub"
    /\ fout' = pub_gateway_msg(fin.msg, fin.write)
    /\ mirror' = Exec(mirror, fout')
    /\ fpc' = "pub_done"
    /\ UNCHANGED <<cfg, nevents, pc, triggermode, storedMode, free, alloc, tmode, tracking,
                   sent, last, lastDestip, released, episode, live, fin, kat>>

SpecPub == InitPub /\ [][ApplyPub]_vars

\* ------------------------------------------- the target name formatter
\* Strings are sequences of one-character strings.
NameChars == {"a", " ", ",", "|", "."}

Whitespace == {" "}

\* string.punctuation without + and -, as listed in target_name (the double
\* quote, the backslash and the backquote of the list are not in the alphabet
\* of the model).
Punctuation == {"!", "#", "$", "%", "&", "'", "(", ")", "*", ",", ".", "/", ":",
                ";", "<", "=", ">", "?", "@", "[", "]", "^", "_", "{", "|",
                "}", "~"}

NOT_PROVIDED == <<"N", "O", "T", "_", "P", "R", "O", "V", "I", "D", "E", "D">>

\* str.strip(chars): the characters of the set are removed at both ends.
StripChars(s, chars) ==
    LET keep == {i \in 1..Len(s) : s[i] \notin chars}
    IN  IF keep = {} THEN <<>>
        ELSE SubSeq(s, CHOOSE i \in keep : \A j \in keep : i <= j,
                       CHOOSE i \in keep : \A j \in keep : j <= i)

\* str.split(delimiter)[0]: the part before the first delimiter.
SplitFirst(s, delimiter) ==
    LET at == {i \in 1..Len(s) : s[i] = delimiter}
    IN  IF at = {} THEN s ELSE SubSeq(s, 1, (CHOOSE i \in at : \A j \in at : i <= j) - 1)

Translate(s) == [i \in 1..Len(s) |-> IF s[i] \in Punctuation THEN "_" ELSE s[i]]

\* The name target_name returns for the description field target[0].
target_name(target0, length, delimiter) ==
    IF StripChars(target0, Whitespace) = <<>> THEN NOT_PROVIDED
    ELSE LET split    == SplitFirst(target0, delimiter)
             stripped == StripChars(StripChars(split, Whitespace), {","})
             replaced == Translate(stripped)
         IN  SubSeq(replaced, 1, Min(length, Len(replaced)))

NameInputs == UNION {[1..n -> NameChars] : n \in 0..MaxNameLen}

InitName == CoordOff /\ fpc = "name" /\ fin \in NameInputs /\ fout = <<>>

\* The formatter applied to a description, and again to its own result.
ApplyName ==
    /\ fpc = "name"
    /\ fout' = [once  |-> target_name(fin, TargetLen, "|"),
                twice |-> target_name(target_name(fin, TargetLen, "|"), TargetLen, "|")]
    /\ fpc' = "name_done"
    /\ UNCHANGED <<fin, kat>>
    /\ UNCHANGED coordVars

SpecName == InitName /\ [][ApplyName]_vars

\* ------------------------------------------------ the data directory
\* The status hash of a host as get_datadir_root reads it: no hash, a hash
\* without DATADIR, an empty DATADIR, or a preset one.
RootStatus(hash, has, dir) == [hash |-> hash, has |-> has, datadir |-> dir]

RootStatuses ==
    { RootStatus(FALSE, FALSE, ""), RootStatus(TRUE, FALSE, ""), RootStatus(TRUE, TRUE, ""),
      RootStatus(TRUE, TRUE, "buf1"), RootStatus(TRUE, TRUE, "mnt") }

\* Only the status hash of host_list[0] is read.
get_datadir_root(host_list, status) ==
    LET host_status == status[host_list[1]]
    IN  IF host_status.hash /\ host_status.has /\ host_status.datadir # ""
        THEN host_status.datadir ELSE "buf0"

\* The value of <product_id>:sched_observation_schedule_1: missing (<<>>), or
\* a list of ids YYYYMMDD-XXXX, each kept as <<YYYYMMDD, XXXX>>.
SbValues ==
    { <<>>, << <<"20230102", "0007">> >>,
      << <<"20230102", "0007">>, <<"20230101", "0003">> >> }

\* The path '/<upper_dir>/<current_sb_id>' as the sequence of its components.
datadir(sb_ids, host_list, status) ==
    LET upper_dir == get_datadir_root(host_list, status)
        current_sb_id == IF sb_ids = <<>> THEN <<"Unknown_SB">> ELSE sb_ids[1]
    IN  <<upper_dir>> \o current_sb_id

DatadirInputs == [status : [1..2 -> RootStatuses], sb_ids : SbValues]

InitDatadir == CoordOff /\ fpc = "datadir" /\ fin \in DatadirInputs /\ fout = <<>>

\* tracking_start for the allocation <<1, 2>>: one datadir is computed and
\* published to every host.
ApplyDatadir ==
    /\ fpc = "datadir"
    /\ fout' = [h \in 1..2 |-> datadir(fin.sb_ids, <<1, 2>>, fin.status)]
    /\ fpc' = "datadir_done"
    /\ UNCHANGED <<fin, kat>>
    /\ UNCHANGED coordVars

SpecDatadir == InitDatadir /\ [][ApplyDatadir]_vars

\* ------------------------------------------------- the current target
\* What one attempt of get_target reads: <product_id>:last-target and
\* <product_id>:last-capture-start.
TargetReads == [last_target : 0..2, last_start : {1}]

\* i after the loop (counted from 0): the first attempt whose target is not
\* older than the capture-start, the last attempt if there is none.
get_target(reads, retries, stored) ==
    LET new == {k \in 0..(retries - 1) :
                   ~((reads[k + 1].last_target - reads[k + 1].last_start) < 0)}
        i == IF new = {} THEN retries - 1 ELSE CHOOSE k \in new : \A j \in new : k <= j
    IN  IF i = retries - 1 THEN "UNKNOWN" ELSE stored

TargetInputs == UNION {[1..n -> TargetReads] : n \in 1..MaxRetries}

InitTarget == CoordOff /\ fpc = "target" /\ fin \in TargetInputs /\ fout = <<>>

ApplyTarget ==
    /\ fpc = "target"
    /\ fout' = get_target(fin, Len(fin), "J0918-1205")
    /\ fpc' = "target_done"
    /\ UNCHANGED <<fin, kat>>
    /\ UNCHANGED coordVars

SpecTarget == InitTarget /\ [][ApplyTarget]_vars

\* --------------------------------------------- the whole target string
\* A target string "<name><descriptor><ra>,<dec>": the text before the first
\* radec descriptor ("" without one), the descriptor ("none" without one),
\* and the comma-separated fields after it.
TargetNames ==
    { <<>>, <<" ">>, <<"a">>, <<"a", ",", " ">>, <<"a", " ", "|", " ", "a", ",", " ">> }

Descriptors == {"radec,", "radec target,", "radec gaincal,", "none"}

TargetStrings ==
    [name : TargetNames, descriptor : Descriptors,
     coords : {<<>>, <<"14:45:16.47">>, <<"14:45:16.47", "9:58:36.1">>}]

NameRaised == [raised |-> TRUE, name |-> <<>>, ra |-> "", dec |-> ""]

\* target_name as a whole.  The string is split only at 'radec target,' or at
\* 'radec,'; target[1] and radec[1] raise IndexError when they do not exist.
target_name_triple(ts, length, delimiter) ==
    LET is_split == ts.descriptor \in {"radec,", "radec target,"}
        n_parts == IF is_split THEN 2 ELSE 1
        radec == IF ts.coords = <<>> THEN <<"">> ELSE ts.coords
    IN  IF n_parts < 2 \/ Len(radec) < 2 THEN NameRaised
        ELSE [raised |-> FALSE, name |-> target_name(ts.name, length, delimiter),
              ra |-> radec[1], dec |-> radec[2]]

InitTriple == CoordOff /\ fpc = "triple" /\ fin \in TargetStrings /\ fout = <<>>

ApplyTriple ==
    /\ fpc = "triple"
    /\ fout' = target_name_triple(fin, TargetLen, "|")
    /\ fpc' = "triple_done"
    /\ UNCHANGED <<fin, kat>>
    /\ UNCHANGED coordVars

SpecTriple == InitTriple /\ [][ApplyTriple]_vars

\* ------------------------------------------------ the sensor fetcher
\* (meerkat_backend_interface/katportal_server.py)

\* What one io_loop.run_sync(_get_sensor_values) can meet: "ok", the portal
\* answers the query; "error", the query raises inside the coroutine;
\* "timeout", run_sync gives up waiting and raises.
RunSyncOutcomes == {"ok", "error", "timeout"}

\* The arguments of every call of fetch_once: 3, 210, 0.5 (the factor as a fraction).
FetchRetries == 3

SyncTimeout == 210

FactorNum == 1

FactorDen == 2

\* _get_sensor_values: an empty list raises at once (the name returned is
\* undefined), a product without a client raises a KeyError; otherwise the
\* values the query returns are written under <product_id>:<sensor>, and an
\* exception of the query is logged and swallowed.
_get_sensor_values(product_id, targets, has_client, outcome) ==
    IF targets = <<>> THEN [raised |-> TRUE, written |-> {}]
    ELSE IF ~has_client THEN [raised |-> TRUE, written |-> {}]
    ELSE IF outcome = "timeout" THEN [raised |-> TRUE, written |-> {}]
    ELSE IF outcome = "ok"
         THEN [raised |-> FALSE,
               written |-> {<<product_id, targets[i]>> : i \in DOMAIN targets}]
    ELSE [raised |-> FALSE, written |-> {}]

\* fetch_once: the loop over range(retries) breaks at the first run_sync that
\* returns; i keeps the index of the last attempt made, and the test after
\* the loop logs "giving up" when that index is retries - 1.
fetch_once(sensor_names, product_id, retries, sync_timeout, has_client, attempts) ==
    LET run(i) == _get_sensor_values(product_id, sensor_names, has_client, attempts[i + 1])
        returned == {i \in 0..(retries - 1) : ~run(i).raised}
        i == IF returned = {} THEN retries - 1
             ELSE CHOOSE k \in returned : \A m \in returned : k <= m
    IN  [tries |-> i + 1,
         timeouts |-> [k \in 1..(i + 1) |->
                          sync_timeout + (sync_timeout * FactorNum * (k - 1)) \div FactorDen],
         written |-> IF returned = {} THEN {} ELSE run(i).written,
         gave_up |-> i = retries - 1]

FetchNames == {<<>>, <<"subarray_1_pool_resources">>,
               <<"subarray_1_pool_resources", "subarray_1_band">>}

FetchInputs == [sensor_names : FetchNames, attempts : [1..FetchRetries -> RunSyncOutcomes]]

InitFetch == CoordOff /\ fpc = "fetch" /\ fin \in FetchInputs /\ fout = <<>>

ApplyFetch ==
    /\ fpc = "fetch"
    /\ fout' = fetch_once(fin.sensor_names, "array_1", FetchRetries, SyncTimeout, TRUE,
                          fin.attempts)
    /\ fpc' = "fetch_done"
    /\ UNCHANGED <<fin, kat>>
    /\ UNCHANGED coordVars

SpecFetch == InitFetch /\ [][ApplyFetch]_vars

\* ---------------------------------------------- the update callback
\* The sensor names of the model, each with the substrings the callback
\* tests for that occur in it.
SensorMarkers ==
    [name \in {"m000_data_suspect", "m000_pos_request_base_ra", "m000_dig_noise_diode",
               "m000_target", "subarray_1_script_last_delay_calibration",
               "subarray_1_script_last_phaseup", "subarray_1_observation_activity",
               "subarray_1_script_status", "cbf_1_wide_sync_time"} |->
        CASE name = "m000_data_suspect" -> {"data_suspect"}
          [] name = "m000_pos_request_base_ra" -> {"pos_request_base"}
          [] name = "m000_dig_noise_diode" -> {"diode"}
          [] name = "m000_target" -> {"target"}
          [] name = "subarray_1_script_last_delay_calibration" -> {"last_delay"}
          [] name = "subarray_1_script_last_phaseup" -> {"last_phaseup"}
          [] name = "subarray_1_observation_activity" -> {"activity"}
          [] name = "subarray_1_script_status" -> {"script_status"}
          [] OTHER -> {}]

SensorNames == DOMAIN SensorMarkers

\* marker in sensor_name
Contains(marker, sensor_name) == marker \in SensorMarkers[sensor_name]

\* repr(sensor_value): the quoted literal of a value, not the value.
Repr(sensor_value) == <<"repr", sensor_value>>

\* sensor_status == 'nominal'
AnyStatus(sensor_status) == TRUE

IsNominal(sensor_status) == sensor_status = "nominal"

Pub(channel, message) == [channel |-> channel, message |-> message]

\* on_update_callback_fn for one message: the writes (key, value) and the
\* publishes in the order made, and whether unsubscribe_list is called. The
\* time written under last-target is "now", the history hash is left out.
on_update_callback_fn(product_id, msg) ==
    LET name == msg.name
        value == msg.value
        first == <<<<<<product_id, name>>, Repr(value)>>>>
        none == [writes |-> <<>>, publishes |-> <<>>, unsubscribe |-> FALSE]
    IN  IF ~msg.has_data THEN none
        ELSE IF Contains("data_suspect", name)
        THEN [none EXCEPT !.writes = first,
                          !.publishes =
                              IF IsNominal(msg.status)
                              THEN <<Pub("sensor_alerts", <<"data-suspect", product_id, value>>)>>
                              ELSE <<>>]
        ELSE IF Contains("pos_request_base", name) \/ Contains("diode", name)
        THEN [none EXCEPT !.writes = first,
                          !.publishes = <<Pub("sensor_alerts", <<product_id, name, value>>)>>]
        ELSE IF Contains("target", name)
        THEN [none EXCEPT !.writes = first \o <<<<<<product_id, "target">>, value>>,
                                                <<<<product_id, "last-target">>, "now">>>>,
                          !.publishes = <<Pub("sensor_alerts", <<product_id, name, value>>)>>]
        ELSE IF Contains("last_delay", name)
        THEN [none EXCEPT !.writes = first \o <<<<<<product_id, "last_delay">>, msg.timestamp>>>>]
        ELSE IF Contains("last_phaseup", name)
        THEN [none EXCEPT !.writes = first \o <<<<<<product_id, "last_phaseup">>, msg.timestamp>>>>]
        ELSE IF Contains("activity", name)
        THEN [none EXCEPT !.writes = first,
                          !.publishes =
                              IF value = "track"
                              THEN <<Pub("alerts", <<"tracking", product_id>>)>>
                              ELSE <<Pub("alerts", <<"not-tracking", product_id>>)>>]
        ELSE IF Contains("script_status", name)
        THEN [none EXCEPT !.writes = first, !.unsubscribe = value # "busy"]
        ELSE [none EXCEPT !.writes = first]

SensorValues == {"track", "slew", "busy", "ready", "0101"}

UpdateMsgs ==
    [has_data : BOOLEAN, name : SensorNames, value : SensorValues,
     status : {"nominal", "unknown"}, timestamp : {"ts"}]

InitUpdate == CoordOff /\ fpc = "update" /\ fin \in UpdateMsgs /\ fout = <<>>

ApplyUpdate ==
    /\ fpc = "update"
    /\ fout' = on_update_callback_fn("array_1", fin)
    /\ fpc' = "update_done"
    /\ UNCHANGED <<fin, kat>>
    /\ UNCHANGED coordVars

SpecUpdate == InitUpdate /\ [][ApplyUpdate]_vars

\* --------------------------------------------- the fetcher's handlers
\* kat.pos is "off" before start(), "listen" in the loop over the alerts
\* channel, "io_loop" inside loop.start() of _capture_start, "exited" after an
\* exception that start() does not catch. kat.alerts are the messages of the
\* alerts channel not yet read, kat.subscribed the products whose client holds a
\* websocket subscription, kat.store the keys written, kat.trace the writes and
\* publishes of the last handler in order, kat.n the alerts received and
\* kat.updates the updates delivered.
MaxAlerts == 3

MaxUpdates == 2

Alert(type, product_id) == [type |-> type, product |-> product_id]

Step(op, channel, arg) == [op |-> op, channel |-> channel, arg |-> arg]

Write(key) == Step("write", "store", key)

Publish(channel, message) == Step("publish", channel, message)

\* The keys a sequence of steps writes.
Written(trace) == {trace[i].arg : i \in {j \in DOMAIN trace : trace[j].op = "write"}}

\* The alerts a sequence of steps publishes: the fetcher listens on the
\* channel it publishes them to.
RECURSIVE OwnAlerts(_)
OwnAlerts(trace) ==
    IF trace = <<>> THEN <<>>
    ELSE IF Head(trace).op = "publish" /\ Head(trace).channel = "alerts"
         THEN <<Alert(Head(trace).arg[1], Head(trace).arg[2])>> \o OwnAlerts(Tail(trace))
         ELSE OwnAlerts(Tail(trace))

\* A handler that ran the steps of trace and returned, or raised (dead).
After(k, trace, dead) ==
    [k EXCEPT !.store = k.store \cup Written(trace),
              !.trace = trace,
              !.alerts = IF dead THEN k.alerts ELSE k.alerts \o OwnAlerts(trace),
              !.pos = IF dead THEN "exited" ELSE k.pos]

\* product_id[-1]
subarray_nr(product_id) == IF product_id = "array_1" THEN "1" ELSE "2"

\* The names built from conf_sensors, cbf_conf_sensors and stream_conf_sensors,
\* one sensor in each list of the configuration file.
conf_sensor_names(product_id) ==
    IF subarray_nr(product_id) = "1" THEN <<"subarray_1_pool_resources">>
    ELSE <<"subarray_2_pool_resources">>

cbf_conf_sensor_names(product_id) ==
    IF subarray_nr(product_id) = "1" THEN <<"cbf_1_wide_input_labelling">>
    ELSE <<"cbf_2_wide_input_labelling">>

stream_conf_sensor_names(product_id) ==
    IF subarray_nr(product_id) = "1" THEN <<"subarray_1_streams_wide_centre_frequency">>
    ELSE <<"subarray_2_streams_wide_centre_frequency">>

\* The writes of a sequence of keys, in order.
Writes(keys) == [i \in DOMAIN keys |-> Write(keys[i])]

\* The keys fetch_once writes for a list of names.
FetchWrites(product_id, names, f) ==
    Writes(SelectSeq([i \in DOMAIN names |-> <<product_id, names[i]>>],
                     LAMBDA key : key \in f.written))

\* The three outcomes of the attempts of one fetch_once that the handlers
\* of the model meet.
ConfigureRuns ==
    {<<"ok", "ok", "ok">>, <<"timeout", "timeout", "ok">>, <<"error", "ok", "ok">>,
     <<"timeout", "timeout", "timeout">>}

\* _configure: the client is stored, the three lists are fetched once each,
\* and conf_complete is published at the end whatever fetch_once did. The
\* handler raises where it reads a key that no fetch has written
\* (pool_resources: None.split; input_labelling: literal_eval(None)) and where
\* fetch_sensor_pattern returns None (None.items()).
_configure(k, product_id, runs, patterns) ==
    LET k1 == [k EXCEPT !.subarray_katportals = @ \cup {product_id}]
        f1 == fetch_once(conf_sensor_names(product_id), product_id, FetchRetries,
                         SyncTimeout, TRUE, runs.conf)
        t1 == FetchWrites(product_id, conf_sensor_names(product_id), f1)
        has_pool == <<product_id, conf_sensor_names(product_id)[1]>> \in k.store \cup Written(t1)
        t2 == t1 \o <<Write(<<product_id, "cbf_name">>)>>
        f2 == fetch_once(cbf_conf_sensor_names(product_id), product_id, FetchRetries,
                         SyncTimeout, TRUE, runs.cbf)
        t3 == t2 \o FetchWrites(product_id, cbf_conf_sensor_names(product_id), f2)
        has_labelling ==
            <<product_id, cbf_conf_sensor_names(product_id)[1]>> \in k.store \cup Written(t3)
        t4 == t3 \o <<Write(<<product_id, "antenna_names">>), Write(<<product_id, "feng_ids">>)>>
        f3 == fetch_once(stream_conf_sensor_names(product_id), product_id, FetchRetries,
                         SyncTimeout, TRUE, runs.stream)
        t5 == t4 \o FetchWrites(product_id, stream_conf_sensor_names(product_id), f3)
        t6 == t5 \o <<Write(<<product_id, "telstate_sensor">>), Write(<<product_id, "last-target">>),
                      Publish("alerts", <<"conf_complete", product_id>>)>>
    IN  IF ~has_pool THEN After(k1, t1, TRUE)
        ELSE IF ~has_labelling THEN After(k1, t3, TRUE)
        ELSE IF ~patterns THEN After(k1, t5, TRUE)
        ELSE After(k1, t6, FALSE)

\* _conf_complete: a message for the slack proxy.
_conf_complete(k, product_id) ==
    After(k, <<Publish("slack", <<"configured", product_id>>)>>, FALSE)

\* _capture_init: the schedule-block ids through fetch_once (which needs the
\* product's client), then the schedule blocks with retries of their own.
_capture_init(k, product_id, run, blocks) ==
    LET f == fetch_once(<<"sched_observation_schedule_1">>, product_id, FetchRetries,
                        SyncTimeout, product_id \in k.subarray_katportals, run)
        t1 == FetchWrites(product_id, <<"sched_observation_schedule_1">>, f)
        t2 == IF blocks /\ product_id \in k.subarray_katportals
              THEN <<Write(<<product_id, "schedule_blocks">>),
                     Publish("sensor_alerts", <<product_id, "schedule_blocks">>)>>
              ELSE <<>>
    IN  After(k, t1 \o t2, FALSE)

\* subscribe_list, run by the loop: the namespace is recorded first; without
\* a client for the product the coroutine raises inside the loop, which goes
\* on running without a subscription.
subscribe_list(k, product_id) ==
    [k EXCEPT !.namespaces = @ \cup {product_id},
              !.subscribed = IF product_id \in k.subarray_katportals
                             THEN @ \cup {product_id} ELSE @]

\* _capture_start: antennas[0] raises when the product has no antenna list;
\* otherwise subscribe_list is scheduled and loop.start() does not return
\* until something stops the loop.
_capture_start(k, product_id) ==
    LET t == <<Write(<<product_id, "last-capture-start">>)>>
    IN  IF <<product_id, "antennas">> \notin k.store THEN After(k, t, TRUE)
        ELSE [subscribe_list(After(k, t, FALSE), product_id) EXCEPT !.pos = "io_loop"]

\* _capture_stop does nothing.
_capture_stop(k, product_id) == After(k, <<>>, FALSE)

\* _capture_done: the schedule-block key is reset.
_capture_done(k, product_id) ==
    After(k, <<Write(<<product_id, "sched_observation_schedule_1">>)>>, FALSE)

\* _deconfigure: with a client for the product, two keys are deleted and the
\* client is popped from the dictionary; the client itself is not touched.
_deconfigure(k, product_id) ==
    LET k1 == IF product_id \in k.subarray_katportals
              THEN [k EXCEPT !.store = @ \ {<<product_id, "last_phaseup">>,
                                            <<product_id, "last_delaycal">>},
                             !.subarray_katportals = @ \ {product_id}]
              ELSE k
    IN  After(k1, <<Publish("slack", <<"deconfigured", product_id>>)>>, FALSE)

\* _other: a warning in the log.
_other(k, product_id) == After(k, <<>>, FALSE)

\* unsubscribe_list, called by the callback: the subscription and the
\* connection are closed and the loop is stopped, so that loop.start()
\* returns into the loop over the alerts.
unsubscribe_list(k, product_id) ==
    [k EXCEPT !.subscribed = @ \ {product_id}, !.pos = "listen"]

\* The update callback inside the running loop.
Callback(k, product_id, msg) ==
    LET r == on_update_callback_fn(product_id, msg)
        t == [i \in DOMAIN r.writes |-> Write(r.writes[i][1])]
             \o [i \in DOMAIN r.publishes |->
                    Publish(r.publishes[i].channel, r.publishes[i].message)]
        k1 == After(k, t, FALSE)
    IN  IF r.unsubscribe THEN unsubscribe_list(k1, product_id) ELSE k1

AlertTypes ==
    {"configure", "capture-init", "capture-start", "capture-stop", "capture-done",
     "deconfigure"}

\* The updates of the subscribed sensors that the model delivers.
KatUpdates ==
    {m \in UpdateMsgs :
        /\ m.has_data /\ m.status = "nominal"
        /\ <<m.name, m.value>> \in {<<"subarray_1_observation_activity", "track">>,
                                    <<"subarray_1_observation_activity", "slew">>,
                                    <<"subarray_1_script_status", "busy">>,
                                    <<"subarray_1_script_status", "ready">>}}

\* start(): the subscription to the alerts channel.
KatStart ==
    /\ kat.pos = "off"
    /\ kat' = [kat EXCEPT !.pos = "listen"]
    /\ UNCHANGED <<fin, fout, fpc>>
    /\ UNCHANGED coordVars

\* The katcp server publishes an alert; before configure:<product_id> it has
\* written the product's antenna list, portal address and prefix.
KatAlert(type, product_id) ==
    /\ kat.pos \in {"listen", "io_loop"}
    /\ kat.n < MaxAlerts
    /\ kat' = [kat EXCEPT !.alerts = Append(@, Alert(type, product_id)),
                          !.store = IF type = "configure"
                                    THEN @ \cup {<<product_id, "antennas">>,
                                                 <<product_id, "cam:url">>,
                                                 <<product_id, "cbf_prefix">>}
                                    ELSE @,
                          !.n = @ + 1]
    /\ UNCHANGED <<fin, fout, fpc>>
    /\ UNCHANGED coordVars

\* One turn of the loop of start() takes the next message when the loop over
\* the alerts is running.
Taken(type) ==
    /\ kat.pos = "listen"
    /\ kat.alerts # <<>>
    /\ Head(kat.alerts).type = type

Rest == [kat EXCEPT !.alerts = Tail(@)]

KatConfigure ==
    /\ Taken("configure")
    /\ \E runs \in [conf : ConfigureRuns, cbf : ConfigureRuns, stream : ConfigureRuns],
          patterns \in BOOLEAN :
          kat' = _configure(Rest, Head(kat.alerts).product, runs, patterns)
    /\ UNCHANGED <<fin, fout, fpc>>
    /\ UNCHANGED coordVars

KatConfComplete ==
    /\ Taken("conf_complete")
    /\ kat' = _conf_complete(Rest, Head(kat.alerts).product)
    /\ UNCHANGED <<fin, fout, fpc>>
    /\ UNCHANGED coordVars

KatCaptureInit ==
    /\ Taken("capture-init")
    /\ \E run \in ConfigureRuns, blocks \in BOOLEAN :
          kat' = _capture_init(Rest, Head(kat.alerts).product, run, blocks)
    /\ UNCHANGED <<fin, fout, fpc>>
    /\ UNCHANGED coordVars

KatCaptureStart ==
    /\ Taken("capture-start")
    /\ kat' = _capture_start(Rest, Head(kat.alerts).product)
    /\ UNCHANGED <<fin, fout, fpc>>
    /\ UNCHANGED coordVars

KatCaptureStop ==
    /\ Taken("capture-stop")
    /\ kat' = _capture_stop(Rest, Head(kat.alerts).product)
    /\ UNCHANGED <<fin, fout, fpc>>
    /\ UNCHANGED coordVars

KatCaptureDone ==
    /\ Taken("capture-done")
    /\ kat' = _capture_done(Rest, Head(kat.alerts).product)
    /\ UNCHANGED <<fin, fout, fpc>>
    /\ UNCHANGED coordVars

KatDeconfigure ==
    /\ Taken("deconfigure")
    /\ kat' = _deconfigure(Rest, Head(kat.alerts).product)
    /\ UNCHANGED <<fin, fout, fpc>>
    /\ UNCHANGED coordVars

KatOther ==
    /\ kat.pos = "listen"
    /\ kat.alerts # <<>>
    /\ Head(kat.alerts).type \notin AlertTypes \cup {"conf_complete"}
    /\ kat' = _other(Rest, Head(kat.alerts).product)
    /\ UNCHANGED <<fin, fout, fpc>>
    /\ UNCHANGED coordVars

\* The portal delivers an update of a subscribed sensor; the callback runs
\* only while the loop runs.
KatUpdate(product_id, msg) ==
    /\ kat.pos = "io_loop"
    /\ product_id \in kat.subscribed
    /\ kat.updates < MaxUpdates
    /\ kat' = [Callback(kat, product_id, msg) EXCEPT !.updates = @ + 1]
    /\ UNCHANGED <<fin, fout, fpc>>
    /\ UNCHANGED coordVars

KatHandle ==
    \/ KatConfigure
    \/ KatConfComplete
    \/ KatCaptureInit
    \/ KatCaptureStart
    \/ KatCaptureStop
    \/ KatCaptureDone
    \/ KatDeconfigure
    \/ KatOther

InitKat == CoordOff /\ fpc = "off" /\ fin = <<>> /\ fout = <<>>

NextKat ==
    \/ KatStart
    \/ \E type \in AlertTypes, product_id \in Products : KatAlert(type, product_id)
    \/ KatHandle
    \/ \E product_id \in Products, msg \in KatUpdates : KatUpdate(product_id, msg)

SpecKat == InitKat /\ [][NextKat]_vars

\* The loop of start() reads the next alert whenever it is running and an
\* alert is pending; nothing makes the portal end a script or send an update.
SpecKatLive == InitKat /\ [][NextKat]_vars /\ WF_vars(KatHandle)

\* --------------------------------- start() against an existing store
\* The lists without repetition over the hosts in S.
InjSeqs(S) ==
    {q \in UNION {[1..n -> S] : n \in 0..Cardinality(S)} :
        \A i \in 1..Len(q) : \A j \in 1..Len(q) : i # j => q[i] # q[j]}

EmptyStore == [free |-> <<>>, alloc |-> [p \in Products |-> <<>>]]

\* The stores a previous run can leave behind: every host of the pool is in
\* exactly one of the free pool and the allocation lists.
Stores ==
    {st \in [free : InjSeqs(Hosts), alloc : [Products -> InjSeqs(Hosts)]] :
        \A h \in Hosts :
            Cardinality({i \in 1..Len(st.free) : st.free[i] = h})
              + Cardinality({<<p, i>> \in Products \X (1..NHosts) :
                               i <= Len(st.alloc[p]) /\ st.alloc[p][i] = h}) = 1}

\* A new process: __init__ has run, the store is the one found.  fin keeps
\* the store as found.
InitRestart ==
    /\ pc = "init"
    /\ cfg = [hashpipe_instances |-> hashpipe_instances,
              streams_per_instance |-> StreamsPerInstance]
    /\ mirror = {}
    /\ nevents = 0
    /\ triggermode \in Modes
    /\ storedMode = NoMode
    /\ fin \in Stores \cup {EmptyStore}
    /\ free = fin.free
    /\ alloc = fin.alloc
    /\ tmode = [p \in Products |-> IF fin.alloc[p] = <<>> THEN NoMode ELSE Mode("auto", 0)]
    /\ tracking = [p \in Products |-> "none"]
    /\ sent = <<>>
    /\ last = [op |-> "none", p |-> "none", hosts |-> <<>>, trk |-> "none",
               mode |-> NoMode, status |-> <<>>, ran |-> FALSE, missing |-> FALSE]
    /\ lastDestip = [h \in Hosts |-> "none"]
    /\ released = {}
    /\ episode = [p \in Products |-> {}]
    /\ live = [p \in Products |-> NotLive]
    /\ fout = <<>>
    /\ fpc = "restart"
    /\ kat = KatOff

SpecRestart == InitRestart /\ [][Start]_vars

\* ------------------------------------ a pool of eight, four streams each
\* The configuration with hashpipe_instances n0..n7 (hosts 1..8) and
\* streams_per_instance 4.
ScenarioCfg == [hashpipe_instances |-> [i \in 1..8 |-> i], streams_per_instance |-> 4]

\* Stream URLs spead://239.0.0.0+15:7148 and spead://239.0.0.0+31:7148.
ScenarioUrls == {Url(Addr0, TRUE, 15), Url(Addr0, TRUE, 31)}

\* Values of <product_id>:ip_offset.
ScenarioOffsets == {0, 8}

InitScenario ==
    /\ pc = "init"
    /\ cfg = ScenarioCfg
    /\ mirror = {}
    /\ nevents = 0
    /\ triggermode \in Modes
    /\ storedMode = NoMode
    /\ free = <<>>
    /\ alloc = [p \in Products |-> <<>>]
    /\ tmode = [p \in Products |-> NoMode]
    /\ tracking = [p \in Products |-> "none"]
    /\ sent = <<>>
    /\ last = [op |-> "none", p |-> "none", hosts |-> <<>>, trk |-> "none",
               mode |-> NoMode, status |-> <<>>, ran |-> FALSE, missing |-> FALSE]
    /\ lastDestip = [h \in Range(ScenarioCfg.hashpipe_instances) |-> "none"]
    /\ released = {}
    /\ episode = [p \in Products |-> {}]
    /\ live = [p \in Products |-> NotLive]
    /\ fin = <<>>
    /\ fout = <<>>
    /\ fpc = "off"
    /\ kat = KatOff

NextScenario ==
    \/ Start
    \/ \E p \in Products, url \in ScenarioUrls, offset \in ScenarioOffsets :
          conf_complete(p, url, offset, TRUE)
    \/ \E p \in Products : deconfigure(p)

SpecScenario == InitScenario /\ [][NextScenario]_vars

\* ----------------------------------------- wide processing instances
\* Configurations with four hosts and 1 to MaxWide streams per instance.
WideCfgs ==
    {[hashpipe_instances |-> [i \in 1..4 |-> i], streams_per_instance |-> s] :
        s \in 1..MaxWide}

\* Stream URLs with 2, 12 and 24 addresses.
WideUrls == {Url(Addr0, TRUE, 1), Url(Addr0, TRUE, 11), Url(Addr0, TRUE, 23)}

InitWide ==
    /\ pc = "init"
    /\ cfg \in WideCfgs
    /\ mirror = {}
    /\ nevents = 0
    /\ triggermode = Idle
    /\ storedMode = NoMode
    /\ free = <<>>
    /\ alloc = [p \in Products |-> <<>>]
    /\ tmode = [p \in Products |-> NoMode]
    /\ tracking = [p \in Products |-> "none"]
    /\ sent = <<>>
    /\ last = [op |-> "none", p |-> "none", hosts |-> <<>>, trk |-> "none",
               mode |-> NoMode, status |-> <<>>, ran |-> FALSE, missing |-> FALSE]
    /\ lastDestip = [h \in 1..4 |-> "none"]
    /\ released = {}
    /\ episode = [p \in Products |-> {}]
    /\ live = [p \in Products |-> NotLive]
    /\ fin = <<>>
    /\ fout = <<>>
    /\ fpc = "off"
    /\ kat = KatOff

NextWide ==
    \/ Start
    \/ \E p \in Products, url \in WideUrls : conf_complete(p, url, 0, TRUE)
    \/ \E p \in Products : deconfigure(p)

SpecWide == InitWide /\ [][NextWide]_vars

\* =========================================================== claims
Allocated == UNION {Range(alloc[p]) : p \in Products}

\* The places (list, position) at which host h is held.
Copies(h) ==
    {<<"free", i>> : i \in {j \in 1..Len(free) : free[j] = h}}
        \cup UNION {{<<p, i>> : i \in {j \in 1..Len(alloc[p]) : alloc[p][j] = h}} :
                        p \in Products}

ToHost(msgs, h) == LET Test(m) == m.host = h IN SelectSeq(msgs, Test)

Vals(msgs, k) == {msgs[i].val : i \in {j \in 1..Len(msgs) : msgs[j].key = k}}

SetMax(S) == CHOOSE x \in S : \A y \in S : y <= x

\* C1: at every handler boundary the free pool and the allocation lists
\* together hold every host of the initial pool exactly once.
C1_HostsConserved ==
    pc = "running" => \A h \in Hosts : Cardinality(Copies(h)) = 1

\* C2 (as claimed): for every live subarray the number of allocated hosts
\* equals the number of stream groups of its plan, whatever the size of the
\* free pool at its conf_complete.
C2_AllocEqualsPlan ==
    \A p \in Products : live[p].on => Len(alloc[p]) = live[p].n_red_chans

\* C2 (amended): for every live subarray whose conf_complete found a non-empty
\* free pool, the number of allocated hosts is the smaller of the number of
\* stream groups and the size of the free pool at that conf_complete.
C2_AllocIsMinOfPlanAndPool ==
    \A p \in Products :
        (live[p].on /\ live[p].n_free > 0)
            => Len(alloc[p]) = Min(live[p].n_red_chans, live[p].n_free)

C2_Witness ==
    \E p \in Products, q \in Products :
        /\ live[p].on /\ live[p].n_free > 0 /\ live[p].n_free < live[p].n_red_chans
        /\ Len(alloc[p]) = live[p].n_free
        /\ live[q].on /\ live[q].n_free >= live[q].n_red_chans
        /\ Len(alloc[q]) = live[q].n_red_chans

\* C3: within one tracking episode at most one distinct start index is
\* issued, and one execution of the tracking handler publishes the same
\* PKTSTART to every host of the allocation.
C3_OneStartPerEpisode ==
    /\ \A p \in Products : Cardinality(episode[p]) <= 1
    /\ last.op = "tracking" => Cardinality(Vals(sent, "PKTSTART")) <= 1

\* C4: a tracking event for a subarray whose trigger mode is idle publishes
\* no PKTSTART to any host.
C4_IdleNoStart ==
    (last.op = "tracking" /\ last.mode = Idle)
        => \A i \in 1..Len(sent) : sent[i].key # "PKTSTART"

\* C5: the tracking handler executes its body only when the tracking state
\* was false, the not-tracking handler only when it was true.
C5_EdgesOnly ==
    /\ (last.op = "tracking" /\ sent # <<>>) => last.trk # "1"
    /\ (last.op = "not-tracking" /\ last.ran) => last.trk = "1"

\* C6: within one execution of the tracking handler no host receives
\* PKTSTART before DATADIR, SRC_NAME, RA_STR and DEC_STR have been published
\* to every allocated host.
C6_MetadataBeforeStart ==
    last.op = "tracking" =>
        \A j \in 1..Len(sent) :
            sent[j].key = "PKTSTART" =>
                \A h \in Range(last.hosts) :
                    \A k \in {"DATADIR", "SRC_NAME", "RA_STR", "DEC_STR"} :
                        \E i \in 1..(j - 1) : sent[i].host = h /\ sent[i].key = k

C6_Witness ==
    /\ last.op = "tracking"
    /\ Len(last.hosts) >= 2
    /\ Vals(sent, "PKTSTART") \cap {1124, 4024} # {}

\* C7: on a not-tracking event for a subarray whose tracking state is true,
\* every allocated host receives exactly DWELL=0, PKTSTART=0, DWELL=<the DWELL
\* of its status hash, 0 if it has none>, in that order, nothing goes to any
\* other host, and the tracking state is false afterwards.
C7_StopSequence ==
    (last.op = "not-tracking" /\ last.trk = "1") =>
        /\ \A h \in Range(last.hosts) :
              ToHost(sent, h) =
                 << Msg(h, "DWELL", 0, NoCnt), Msg(h, "PKTSTART", 0, NoCnt),
                    Msg(h, "DWELL",
                        IF last.status[h].dwell = NoneVal THEN 0
                        ELSE last.status[h].dwell, NoCnt) >>
        /\ \A i \in 1..Len(sent) : sent[i].host \in Range(last.hosts)
        /\ tracking[last.p] = "0"

C7_Witness ==
    /\ last.op = "not-tracking" /\ last.trk = "1"
    /\ Len(last.hosts) >= 2
    /\ \E h \in Range(last.hosts) : last.status[h].dwell = 60
    /\ \E h \in Range(last.hosts) : last.status[h].dwell = 30
    /\ Len(sent) = 6

\* C8: deconfigure publishes DESTIP=0.0.0.0 to exactly the hosts of the
\* allocation, as the last message it sends to each, and the last DESTIP
\* published to a host released by a deconfigure is 0.0.0.0 for as long as
\* the host stays unallocated.
C8_DeconfigureDestip ==
    /\ last.op = "deconfigure" =>
          /\ {sent[i].host : i \in 1..Len(sent)} = Range(last.hosts)
          /\ \A h \in Range(last.hosts) :
                LET s == ToHost(sent, h)
                IN  s # <<>> /\ s[Len(s)] = Msg(h, "DESTIP", 0, NoCnt)
    /\ \A h \in released \ Allocated : lastDestip[h] = "0.0.0.0"

C8_Witness ==
    /\ last.op = "conf_complete"
    /\ \E i \in 1..Len(sent) : sent[i].key = "DESTIP"
    /\ released \ Allocated # {}

\* The plan the claim describes for stream count x.n_addrs, x.n_groups nodes,
\* capacity x.streams_per_instance and offset x.offset.
FillFirst(x) ==
    LET T == x.n_addrs - x.offset
        S == x.streams_per_instance
        k == (T + S - 1) \div S
    IN  IF T > x.n_groups * S
        THEN [i \in 1..x.n_groups |-> Group(Addr0 + x.offset + (i - 1) * S, S - 1)]
        ELSE [i \in 1..k |->
                 Group(Addr0 + x.offset + (i - 1) * S,
                       IF i < k THEN S - 1 ELSE T - (k - 1) * S - 1)]

\* C9: create_addr_list_filled returns the fill-first plan for every input,
\* the single-node case T <= S included.
C9_FillFirst ==
    fpc = "plan_done" => (~fout.raised /\ fout.list = FillFirst(fin))

NonOutliers(s) ==
    {s[i] : i \in {j \in 1..Len(s) : Abs(2 * s[j] - Median2(s)) <= 2 * PKTIDX_MARGIN}}

\* C10: select_pkt_start returns the largest value within the margin of the
\* median, plus the margin.
C10_LargestNonOutlier ==
    (fpc = "pkt_done" /\ NonOutliers(fin) # {})
        => fout = SetMax(NonOutliers(fin)) + PKTIDX_MARGIN

\* The PKTIDX values that get_start_idx collected in the last tracking event.
Collected == ActiveIdxs(last.hosts, last.status)

\* C11: whenever the tracking handler publishes a start index P, P >= x + 1024
\* for the PKTIDX x of every active allocated host whose PKTIDX lies within
\* 1024 of the median of the collected values.
C11_MarginSlack ==
    (last.op = "tracking" /\ Collected # <<>>) =>
        \A j \in 1..Len(sent) :
            sent[j].key = "PKTSTART" =>
                \A i \in 1..Len(Collected) :
                    Abs(2 * Collected[i] - Median2(Collected)) <= 2 * PKTIDX_MARGIN
                        => sent[j].val >= Collected[i] + PKTIDX_MARGIN

\* C12: if no allocated host is active when the tracking handler computes
\* the start index, no PKTSTART message is published and the tracking state
\* of the subarray is nevertheless set to true.
C12_NoActiveNoStart ==
    (last.op = "tracking" /\ pc = "running" /\ Collected = <<>>) =>
        /\ \A j \in 1..Len(sent) : sent[j].key # "PKTSTART"
        /\ tracking[last.p] = "1"

\* C13: an exception raised inside a handler does not terminate the event
\* loop.
C13_LoopSurvives == pc # "exited"

\* C14: a handler that raises leaves the free pool and every allocation list
\* as they were before the event.
C14_FailedHandlerKeepsPool ==
    [][pc' = "exited" => (free' = free /\ alloc' = alloc)]_vars

\* The parameters of conf_complete that need no sensor snapshot.
NoSensorKeys == {"BINDPORT", "FENSTRM", "PKTSTART", "NSTRM", "DESTIP"}

\* C15: if a sensor snapshot is missing, conf_complete is not aborted: the
\* parameters whose inputs are available are published to every allocated
\* host and the coordinator keeps running.
C15_MissingSensorContinues ==
    (last.op = "conf_complete" /\ last.missing) =>
        /\ pc = "running"
        /\ \A h \in Range(alloc[last.p]) :
              \A k \in NoSensorKeys : Vals(ToHost(sent, h), k) # {}

C16_RestartKeepsStore ==
    (fpc = "restart" /\ pc = "running") =>
        /\ alloc = fin.alloc
        /\ free = IF fin = EmptyStore THEN hashpipe_instances ELSE fin.free

\* The store whose free pool is empty while every host is allocated, as a
\* run of the coordinator leaves it (reachable under Spec).
C16_DrainedStore == pc = "exited" /\ free = <<>> /\ Allocated = Hosts

\* C18: for every gateway parameter that is mirrored to the store, the write
\* into the hash of the channel happens before the publish on the channel.
C18_MirrorBeforePublish ==
    (fpc = "pub_done" /\ fin.write) =>
        \E i \in 1..Len(fout) : \E j \in (i + 1)..Len(fout) :
            /\ fout[i] = [cmd |-> "hset", msg |-> fin.msg]
            /\ fout[j] = [cmd |-> "publish", msg |-> fin.msg]

\* The last message of msgs for the field of x, if any.
LastPublished(msgs, x) ==
    LET idx == {i \in 1..Len(msgs) : msgs[i].host = x.host /\ msgs[i].key = x.key}
    IN  IF idx = {} THEN x ELSE msgs[SetMax(idx)]

\* C19: at every handler boundary every mirrored value equals the last value
\* published for its key on its channel; here for the values published by
\* the handler that has just ended.
C19_MirrorIsLastPublished ==
    \A x \in mirror : LastPublished(sent, x) = x

\* The last event was the conf_complete of product p with the URL
\* spead://239.0.0.0+31:7148 (FENSTRM = 32) and ip_offset 8 (SCHAN of the
\* first node = 8 * HNCHAN), as the first event on the pool n0..n7.
ScenarioRan(p) ==
    /\ cfg = ScenarioCfg
    /\ last.op = "conf_complete" /\ last.p = p
    /\ nevents = 1
    /\ live[p].on /\ live[p].n_free = 8
    /\ Vals(sent, "FENSTRM") = {32}
    /\ \E j \in 1..Len(sent) :
          /\ sent[j].key = "SCHAN" /\ sent[j].val = 8 * HnChan
          /\ \A i \in 1..(j - 1) : sent[i].key # "SCHAN"

\* Node i of the allocation of p received DESTIP=239.0.0.<8+4i>+3, NSTRM=4 and
\* SCHAN=(8+4i)*HNCHAN.
NodeConfigured(p, i) ==
    LET h == alloc[p][i + 1]
        s == ToHost(sent, h)
    IN  /\ Msg(h, "DESTIP", Addr0 + 8 + 4 * i, 3) \in Range(s)
        /\ Vals(s, "NSTRM") = {4}
        /\ Vals(s, "SCHAN") = {(8 + 4 * i) * HnChan}

\* C20 (as claimed): with the pool n0..n7, S = 4, the URL
\* spead://239.0.0.0+31:7148 and ip_offset 8, conf_complete builds 8 stream
\* groups of size 4, allocates n0..n7, sends node i DESTIP=239.0.0.<8+4i>+3,
\* NSTRM=4 and SCHAN=(8+4i)*HNCHAN, and leaves the free pool empty.
C20_EightGroups ==
    \A p \in Products :
        ScenarioRan(p) =>
            /\ live[p].n_red_chans = 8
            /\ alloc[p] = <<1, 2, 3, 4, 5, 6, 7, 8>>
            /\ \A i \in 0..7 : NodeConfigured(p, i)
            /\ free = <<>>

\* C20 (amended): in that scenario conf_complete builds 6 stream groups of
\* size 4 (the 24 addresses left after the offset), allocates n0..n5, sends
\* node i DESTIP=239.0.0.<8+4i>+3, NSTRM=4 and SCHAN=(8+4i)*HNCHAN, and leaves
\* n6 and n7 in the free pool.
C20_SixGroups ==
    \A p \in Products :
        ScenarioRan(p) =>
            /\ pc = "running"
            /\ live[p].n_red_chans = 6
            /\ alloc[p] = <<1, 2, 3, 4, 5, 6>>
            /\ \A i \in 0..5 : NodeConfigured(p, i)
            /\ free = <<7, 8>>

C20_Witness ==
    /\ ScenarioRan("array_1")
    /\ Len(sent) = 6 * 14
    /\ lastDestip[6] = "group" /\ lastDestip[7] = "none"

\* C22: formatting a target name that is already formatted gives the same
\* name back, for every description over the alphabet.
C22_FormatIdempotent == fpc = "name_done" => fout.twice = fout.once

\* C23: conf_complete allocates exactly the first min(n_red_chans, |free|)
\* hosts of the free pool in pool order, removes exactly those from the pool
\* and keeps the rest in order; with fewer free hosts than stream groups the
\* handler still completes.
C23_AllocatesFirstHosts ==
    [][\A p \in Products, url \in Urls, offset \in 0..MaxOffset :
          (/\ conf_complete(p, url, offset, TRUE)
           /\ ~ip_addresses(url, offset).raised
           /\ Len(free) > 0) =>
              LET n_red_chans == Len(ip_addresses(url, offset).list)
                  k == IF n_red_chans < Len(free) THEN n_red_chans ELSE Len(free)
              IN  /\ alloc'[p] = SubSeq(free, 1, k)
                  /\ free' = SubSeq(free, k + 1, Len(free))
                  /\ pc' = "running"]_vars

\* C24: after conf_complete for a subarray has completed, the stored tracking
\* state of that subarray is not "tracking", whatever it was before.
C24_ConfCompleteResetsTracking ==
    \A p \in Products :
        (last.op = "conf_complete" /\ last.p = p /\ pc = "running") => tracking[p] # "1"

\* C25: after deconfigure for a subarray has completed, its allocation list,
\* its trigger mode and its tracking state are absent from the store.
C25_DeconfigureClearsKeys ==
    \A p \in Products :
        (last.op = "deconfigure" /\ last.p = p /\ pc = "running") =>
            /\ alloc[p] = <<>>
            /\ tmode[p] = NoMode
            /\ tracking[p] = "none"

\* C21: no event for subarray p changes the allocation, trigger mode or
\* tracking state of another subarray q, and no handler running for p
\* publishes to a host that is allocated to q or that is in the free pool
\* when the message is published (for conf_complete: the pool as written by
\* the handler before it publishes).
C21_SubarraysIsolated ==
    [][\A p \in Products :
          (nevents' = nevents + 1 /\ last'.p = p) =>
              \A q \in Products \ {p} :
                  /\ alloc'[q] = alloc[q]
                  /\ tmode'[q] = tmode[q]
                  /\ tracking'[q] = tracking[q]
                  /\ \A i \in 1..Len(sent') :
                        /\ sent'[i].host \notin Range(alloc[q])
                        /\ sent'[i].host \notin
                              Range(IF last'.op = "conf_complete" THEN free' ELSE free)]_vars

\* C26: when the tracking handler has run to its end for a subarray, the
\* trigger mode of the subarray is idle if it was armed, nshot:(k-1) if it
\* was nshot:k with k > 1, idle if it was nshot:1, and unchanged if it was
\* auto; it is never nshot with a count of 0 or less.
C26_TriggerModeUpdate ==
    [][\A p \in Products :
          (nevents' = nevents + 1 /\ last'.op = "tracking" /\ last'.p = p /\ pc' = "running") =>
              /\ tmode[p].kind = "armed" => tmode'[p] = [kind |-> "idle", n |-> 0]
              /\ (tmode[p].kind = "nshot" /\ tmode[p].n > 1) =>
                    tmode'[p] = [kind |-> "nshot", n |-> tmode[p].n - 1]
              /\ (tmode[p].kind = "nshot" /\ tmode[p].n = 1) =>
                    tmode'[p] = [kind |-> "idle", n |-> 0]
              /\ tmode[p].kind = "auto" => tmode'[p] = tmode[p]
              /\ ~(tmode'[p].kind = "nshot" /\ tmode'[p].n <= 0)]_vars

C26_Witness ==
    /\ pc = "running"
    /\ last.op = "tracking"
    /\ last.mode = [kind |-> "nshot", n |-> 2]
    /\ tmode[last.p] = [kind |-> "nshot", n |-> 1]
    /\ sent # <<>>

\* The mode a coordinator:trigger_mode message names: all of its text after
\* the second colon.
C27_Named(data) ==
    IF data[3] = "nshot" THEN [kind |-> "nshot", n |-> IF data[4] = "2" THEN 2 ELSE 1]
    ELSE [kind |-> data[3], n |-> 0]

\* C27: a coordinator:trigger_mode:<value> event sets the default trigger
\* mode to the whole of <value> (nshot:2 included) and stores it under
\* coordinator:trigger_mode, without changing the trigger mode of any
\* subarray; no other event changes the default of a running coordinator,
\* and conf_complete sets the trigger mode of its subarray to the default of
\* that moment.
C27_DefaultTriggerMode ==
    [][/\ \A data \in EventData :
             (/\ Len(data) > 2 /\ data[1] = "coordinator" /\ data[2] = "trigger_mode"
              /\ Dispatch(data)) =>
                 /\ triggermode' = C27_Named(data)
                 /\ storedMode' = C27_Named(data)
                 /\ tmode' = tmode
       /\ \A p \in Products :
             (nevents' = nevents + 1 /\ last'.op = "conf_complete" /\ last'.p = p) =>
                 tmode'[p] = triggermode
       /\ (nevents' = nevents + 1 /\ last'.op \notin {"trigger_mode", "restart"}) =>
             triggermode' = triggermode]_vars

C27_Witness ==
    /\ pc = "running"
    /\ last.op = "conf_complete" /\ last.p = "array_2"
    /\ storedMode = [kind |-> "nshot", n |-> 2]
    /\ tmode["array_2"] = [kind |-> "nshot", n |-> 2]
    /\ tmode["array_1"] = [kind |-> "idle", n |-> 0]

\* Messages the coordinator has no handler for: fewer than two fields, or a
\* type that is none of the handled ones and a description without
\* pos_request_base.
C28_Unhandled(data) ==
    \/ Len(data) < 2
    \/ /\ Len(data) >= 2
       /\ ~(data[1] = "coordinator" /\ data[2] = "trigger_mode")
       /\ data[1] \notin {"conf_complete", "deconfigure", "data-suspect", "tracking",
                          "not-tracking"}
       /\ data[2] \notin {"m000_pos_request_base_dec", "m000_pos_request_base_ra"}

\* C28: an event with fewer than two fields or of a type without a handler
\* is skipped: nothing is published, nothing in the store changes, and the
\* loop goes on.
C28_UnhandledSkipped ==
    [][\A data \in EventData :
          (C28_Unhandled(data) /\ Dispatch(data)) =>
              /\ sent' = <<>>
              /\ pc' = "running"
              /\ <<mirror, triggermode, storedMode, free, alloc, tmode, tracking>>' =
                    <<mirror, triggermode, storedMode, free, alloc, tmode, tracking>>]_vars

C28_Witness ==
    /\ pc = "running"
    /\ last.op = "skipped"
    /\ alloc["array_1"] # <<>>
    /\ tracking["array_1"] = "1"

\* C29: the NSTRM value conf_complete publishes to a node is one more than
\* the count in the stream group (<addr>+<cnt>) published to it as DESTIP,
\* for every number of streams per instance.
C29_NstrmIsCountPlusOne ==
    \A p \in Products :
        (last.op = "conf_complete" /\ last.p = p /\ pc = "running") =>
            \A i \in 1..Len(sent), j \in 1..Len(sent) :
                (/\ sent[i].host = sent[j].host
                 /\ sent[i].key = "NSTRM" /\ sent[j].key = "DESTIP") =>
                    sent[i].val = sent[j].cnt + 1

\* The number of streams in the groups published to the first k hosts.
RECURSIVE C30_Streams(_, _, _)
C30_Streams(msgs, hosts, k) ==
    IF k = 0 THEN 0
    ELSE C30_Streams(msgs, hosts, k - 1)
            + SetMax({msgs[j].cnt + 1 : j \in {x \in 1..Len(msgs) :
                         msgs[x].host = hosts[k] /\ msgs[x].key = "DESTIP"}})

\* C30: the SCHAN value conf_complete publishes to the node at position i is
\* HNCHAN times the sum of the ip offset and the number of streams of the
\* groups given to the nodes before it, also when the last group is short.
C30_SchanIsStreamsBefore ==
    [][\A p \in Products, url \in Urls, offset \in 0..MaxOffset :
          (/\ conf_complete(p, url, offset, TRUE)
           /\ Len(free) > 0
           /\ pc' = "running") =>
              \A i \in 1..Len(alloc'[p]) :
                  Vals(ToHost(sent', alloc'[p][i]), "SCHAN") =
                      {HnChan * (offset + C30_Streams(sent', alloc'[p], i - 1))}]_vars

\* The DATADIR root of a host: its preset one, buf0 without one.
C31_Root(st) == IF st.hash /\ st.has /\ st.datadir # "" THEN st.datadir ELSE "buf0"

\* C31: the DATADIR published to a host on tracking is /<root>/<YYYYMMDD>/<XXXX>
\* for the first schedule block id (/<root>/Unknown_SB without one), where
\* <root> is the DATADIR root of that host itself.
C31_DatadirPerHost ==
    fpc = "datadir_done" =>
        \A h \in 1..2 :
            fout[h] = IF fin.sb_ids = <<>> THEN <<C31_Root(fin.status[h]), "Unknown_SB">>
                      ELSE <<C31_Root(fin.status[h]), fin.sb_ids[1][1], fin.sb_ids[1][2]>>

\* C32: get_target returns the stored target when on one of its attempts,
\* the last one included, the last-target timestamp is not older than the
\* last-capture-start timestamp, and 'UNKNOWN' only when the target is stale
\* on every attempt.
C32_FreshTargetReturned ==
    fpc = "target_done" =>
        IF \E k \in 1..Len(fin) : fin[k].last_target >= fin[k].last_start
        THEN fout = "J0918-1205" ELSE fout = "UNKNOWN"

\* The shapes of the test script: a name followed by 'radec gaincal,' and
\* coordinates, 'radec gaincal,' and coordinates without a name, and a name
\* with coordinates but no descriptor.
C33_TestShape(ts) ==
    /\ Len(ts.coords) = 2
    /\ \/ ts.descriptor = "radec gaincal,"
       \/ ts.descriptor = "none" /\ ts.name # <<>>

\* C33: for every target string of the shapes of the test script,
\* target_name returns a (name, RA, Dec) triple and does not raise.
C33_TestShapesReturn ==
    (fpc = "triple_done" /\ C33_TestShape(fin)) => ~fout.raised

\* C39: within one run of the coordinator, after every handler no host is
\* twice in the free pool, no host is in the free pool and in an allocation
\* list, and no host is in the allocation lists of two subarrays.
C39_NoDoubleBooking ==
    /\ \A i \in 1..Len(free), j \in 1..Len(free) : i # j => free[i] # free[j]
    /\ \A p \in Products : Range(free) \cap Range(alloc[p]) = {}
    /\ \A p \in Products, q \in Products : p # q => Range(alloc[p]) \cap Range(alloc[q]) = {}

C39_Witness ==
    /\ pc = "running"
    /\ last.op = "deconfigure" /\ last.p = "array_1" /\ last.hosts # <<>>
    /\ alloc["array_2"] # <<>>
    /\ Len(free) = 2

\* C40: a tracking, not-tracking, data-suspect, pointing or deconfigure
\* event for a subarray without an allocation record publishes nothing,
\* leaves the free pool and every allocation list unchanged, and does not
\* stop the coordinator.
C40_UnallocatedHarmless ==
    [][\A p \in Products :
          (/\ nevents' = nevents + 1
           /\ last'.p = p
           /\ last'.op \in {"tracking", "not-tracking", "data-suspect", "pointing", "deconfigure"}
           /\ alloc[p] = <<>>) =>
              /\ sent' = <<>>
              /\ free' = free
              /\ alloc' = alloc
              /\ pc' = "running"]_vars

\* C37: fetch_once makes at most three attempts, stops at the first attempt
\* that succeeds, waits 210 * (1 + 0.5 k) for attempt k = 0, 1, 2, and
\* reports that it gives up only if all three attempts failed.
C37_Failed(k) ==
    _get_sensor_values("array_1", fin.sensor_names, TRUE, fin.attempts[k]).raised

C37_FetchOnceBounded ==
    fpc = "fetch_done" =>
        /\ fout.tries \in 1..FetchRetries
        /\ \A k \in 1..(fout.tries - 1) : C37_Failed(k)
        /\ fout.tries < FetchRetries => ~C37_Failed(fout.tries)
        /\ \A k \in 1..fout.tries : 2 * fout.timeouts[k] = SyncTimeout * (2 + (k - 1))
        /\ fout.gave_up => \A k \in 1..FetchRetries : C37_Failed(k)

C34_Snapshots(p) ==
    {<<p, conf_sensor_names(p)[1]>>, <<p, cbf_conf_sensor_names(p)[1]>>,
     <<p, stream_conf_sensor_names(p)[1]>>}

C34_ConfCompleteAfterSnapshots ==
    \A p \in Products : \A j \in DOMAIN kat.trace :
        kat.trace[j] = Publish("alerts", <<"conf_complete", p>>) =>
            \A key \in C34_Snapshots(p) : \E i \in 1..(j - 1) : kat.trace[i] = Write(key)

\* C36: a deconfigure alert for a product whose client holds a subscription
\* leads to the fetcher ending that subscription and discarding the session.
C36_Pending(type, p) == \E i \in DOMAIN kat.alerts : kat.alerts[i] = Alert(type, p)

C36_DeconfigureEndsSubscription ==
    \A p \in Products :
        (C36_Pending("deconfigure", p) /\ p \in kat.subscribed)
            ~> (p \notin kat.subscribed /\ p \notin kat.subarray_katportals)

\* C38: a configure, capture-start or deconfigure alert for one subarray is
\* eventually read and handled while another subarray's subscription is
\* active, unless that subscription ends first.
C38_ServedConcurrently ==
    \A p \in Products : \A q \in Products \ {p} :
        \A type \in {"configure", "capture-start", "deconfigure"} :
            (C36_Pending(type, q) /\ p \in kat.subscribed)
                ~> (~C36_Pending(type, q) \/ p \notin kat.subscribed)

====
